---- MODULE Spec2Model ----
(***************************************************************************)
(* EDEN.CORE self-governance pipeline: the Memory Store                    *)
(* (memory/memory_module.py), the Energy Governor (energy/*.py), the       *)
(* Resilience Gate (resilience/resilience_module.py) and the request       *)
(* pipelines of cli.py and app.py.                                         *)
(*                                                                         *)
(* Numbers.  Python floats are modelled by exact integers:                 *)
(*   - resonance, truth and context values are in tenths (8 is 0.8);       *)
(*   - time is in whole days;                                              *)
(*   - a relevance score is in 1/600 (360 is the 0.6 threshold).           *)
(***************************************************************************)
EXTENDS Integers, Sequences, FiniteSets, TLC

\* ------------------------------------------------------------------ bounds
MaxSteps == 4          \* operations performed on the Memory Store in one run
MaxTime == 62          \* the clock stops advancing here (days)
\* The capacity cap.  The code's cap is the literal 100 (len(self.memories) >
\* 100, self.memories[:100]); the model runs the same rule with a cap small
\* enough to be exceeded within MaxSteps, and every statement about the cap
\* is made for Capacity.
Capacity == 2
MaxCalls == 6          \* calls made on the Energy Governor in one run
MaxSeconds == 400      \* the seconds clock stops advancing here
MaxTasks == 3          \* requests in flight on the server at once

\* ------------------------------------------------------- program constants
RetentionPeriod == 30  \* config.get('retention_period', 30), days
HighResonance == 8     \* memory.resonance > 0.8 is exempt from the age rule
RelevanceThreshold == 360   \* scored_memories[0][1] > 0.6, in 1/600
Absent == 0 - 1        \* a key that is not in a dict

\* ------------------------------------------------------------- input sets
\* A text is the sequence of its whitespace-separated words.

\* A context is a dict; of its keys the code reads 'resonance_value',
\* 'resonance' and 'ethical_alignment' (a dict over the dimensions).
\* nonempty tells a dict that has some key from None and from {}.
Dimensions == {"truth", "meaning"}
NoAlignment == [d \in Dimensions |-> Absent]
NoContext ==
    [nonempty |-> FALSE, resonance_value |-> Absent, resonance |-> Absent,
     has_alignment |-> FALSE, ethical_alignment |-> NoAlignment]
CtxHigh ==
    [nonempty |-> TRUE, resonance_value |-> 8, resonance |-> Absent,
     has_alignment |-> TRUE,
     ethical_alignment |-> [d \in Dimensions |-> IF d = "truth" THEN 8 ELSE 6]]
CtxLow ==
    [nonempty |-> TRUE, resonance_value |-> 2, resonance |-> Absent,
     has_alignment |-> TRUE,
     ethical_alignment |-> [d \in Dimensions |-> IF d = "truth" THEN 2 ELSE 6]]
CtxBare ==
    [nonempty |-> TRUE, resonance_value |-> 5, resonance |-> Absent,
     has_alignment |-> TRUE, ethical_alignment |-> NoAlignment]
CtxOwn ==
    [nonempty |-> TRUE, resonance_value |-> 2, resonance |-> 8,
     has_alignment |-> FALSE, ethical_alignment |-> NoAlignment]
\* The (query, context) pairs handed to retrieve.
RetrieveInputs ==
    { <<<<"life">>, NoContext>>,
      <<<<"life">>, CtxHigh>>,
      <<<<"meaning", "life">>, CtxLow>>,
      <<<<"meaning", "life">>, CtxOwn>>,
      <<<<"meaning">>, CtxBare>>,
      <<<<>>, CtxHigh>> }
\* The (content, context, resonance) triples handed to store.
StoreInputs ==
    { <<<<"life">>, NoContext, 1>>,
      <<<<"life">>, CtxHigh, 8>>,
      <<<<"meaning", "life">>, CtxLow, 1>>,
      <<<<"meaning", "life">>, CtxHigh, 9>>,
      <<<<"meaning", "life">>, CtxOwn, 1>>,
      <<<<>>, CtxHigh, 9>> }
\* The clock advances by 3 days, by 27 (inside the retention window, near its
\* end) or by 31 (past it).
TickDays == {3, 27, 31}

VARIABLES
    memEnabled,   \* EdenMemory.enabled
    memories,     \* EdenMemory.memories, a list of MemoryEntry
    doc,          \* the file memory_store/memories.json
    proc,         \* "up": the store is constructed; "crashed": __init__ raised
    now,          \* time.time(), in days
    steps,        \* operations performed so far
    last,         \* the last Memory Store operation and what it returned
    energy,       \* the Energy Governor object (EdenEnergy / EdenAdaptiveEnergy)
    secs,         \* time.time(), the seconds past the whole days of now
    glast,        \* the last Energy Governor call and what it returned
    frontend,     \* the front end that runs the pipeline: "cli" or "app"
    plast,        \* the last request of the pipeline and how it ended
    tasks,        \* the requests in flight on app.py's server
    running       \* the request whose handler the event loop runs, or 0

memVars == <<memEnabled, memories, doc, proc, now, last>>
govVars == <<energy, secs, glast>>
loopVars == <<tasks, running>>
pipeVars == <<frontend, plast, tasks, running>>
vars == <<memEnabled, memories, doc, proc, now, steps, last, energy, secs,
          glast, frontend, plast, tasks, running>>

\* ------------------------------------------------------------ MemoryEntry
EntryKeys ==
    {"semantic_content", "context", "timestamp", "resonance",
     "access_count", "last_accessed"}
RequiredKeys == {"semantic_content", "context", "timestamp", "resonance"}

\* MemoryEntry.__init__
NewEntry(content, context, timestamp, resonance) ==
    [semantic_content |-> content, context |-> context,
     timestamp |-> timestamp, resonance |-> resonance,
     access_count |-> 0, last_accessed |-> timestamp]

\* to_dict that writes the four constructor arguments only.
ToDictWithoutAccessStats(memory) ==
    [fields |-> memory, missing |-> {"access_count", "last_accessed"}]

\* MemoryEntry.to_dict: a JSON object with all six keys.
ToDict(memory) == [fields |-> memory, missing |-> {}]

\* MemoryEntry.from_dict: data['k'] raises KeyError for a missing key,
\* data.get('k', default) does not.
FromDictRaises(data) == data.missing \cap RequiredKeys # {}
FromDict(data) ==
    [NewEntry(data.fields.semantic_content, data.fields.context,
              data.fields.timestamp, data.fields.resonance)
     EXCEPT !.access_count =
                IF "access_count" \in data.missing THEN 0
                ELSE data.fields.access_count,
            !.last_accessed =
                IF "last_accessed" \in data.missing THEN data.fields.timestamp
                ELSE data.fields.last_accessed]

\* access() that counts the access and leaves last_accessed alone.
AccessCountOnly(memory, t) ==
    [memory EXCEPT !.access_count = @ + 1]

\* MemoryEntry.access
Access(memory, t) ==
    [memory EXCEPT !.access_count = @ + 1, !.last_accessed = t]

\* ------------------------------------------------------------ persistence
AbsentDoc == [kind |-> "absent", records |-> <<>>]
UnparsableDoc == [kind |-> "unparsable", records |-> <<>>]

\* EdenMemory._save_memories: the whole list, rewritten.
SaveMemories(mems) ==
    [kind |-> "list", records |-> [i \in DOMAIN mems |-> ToDict(mems[i])]]

\* EdenMemory._load_memories.  A missing file and a JSONDecodeError give [];
\* the KeyError of from_dict is not among the caught exceptions.
LoadRaises(d) ==
    /\ d.kind = "list"
    /\ \E i \in DOMAIN d.records : FromDictRaises(d.records[i])
LoadMemories(d) ==
    IF d.kind = "list" /\ ~LoadRaises(d)
    THEN [i \in DOMAIN d.records |-> FromDict(d.records[i])]
    ELSE <<>>

\* ------------------------------------------------------------- relevance
Tokens(text) == { text[i] : i \in DOMAIN text }

\* EdenMemory._calculate_semantic_relevance: Jaccard similarity of the word
\* sets, 0 when either set is empty.  In sixths.
SemanticRelevance(query, content) ==
    LET query_words == Tokens(query)
        content_words == Tokens(content)
    IN  IF query_words = {} \/ content_words = {} THEN 0
        ELSE (6 * Cardinality(query_words \cap content_words))
                 \div Cardinality(query_words \cup content_words)

\* The features _calculate_context_relevance extracts: the query's
\* 'resonance_value' and the memory's 'resonance' both become feature
\* 'resonance'; every ethical_alignment item becomes feature ethical_<key>.
QueryFeatures(c) ==
    [k \in {"resonance"} \cup Dimensions |->
        IF k = "resonance" THEN c.resonance_value
        ELSE IF c.has_alignment THEN c.ethical_alignment[k] ELSE Absent]
MemoryFeatures(c) ==
    [k \in {"resonance"} \cup Dimensions |->
        IF k = "resonance" THEN c.resonance
        ELSE IF c.has_alignment THEN c.ethical_alignment[k] ELSE Absent]
CommonKeys(query_context, memory_context) ==
    { k \in {"resonance"} \cup Dimensions :
        /\ QueryFeatures(query_context)[k] # Absent
        /\ MemoryFeatures(memory_context)[k] # Absent }

Abs(x) == IF x < 0 THEN 0 - x ELSE x
Max(a, b) == IF a >= b THEN a ELSE b
Min(a, b) == IF a <= b THEN a ELSE b

RECURSIVE SumOver(_, _, _)
SumOver(keys, f, g) ==
    IF keys = {} THEN 0
    ELSE LET k == CHOOSE x \in keys : TRUE
         IN  Abs(f[k] - g[k]) + SumOver(keys \ {k}, f, g)

\* EdenMemory._calculate_context_relevance, in sixtieths: 0.5 when a context
\* is missing or no feature is shared, else 1 - the mean absolute difference.
ContextRelevance(query_context, memory_context) ==
    IF ~query_context.nonempty \/ ~memory_context.nonempty THEN 30
    ELSE LET common_keys == CommonKeys(query_context, memory_context)
             total_diff == SumOver(common_keys, QueryFeatures(query_context),
                                   MemoryFeatures(memory_context))
         IN  IF common_keys = {} THEN 30
             ELSE Max(0, 60 - (6 * total_diff) \div Cardinality(common_keys))

\* temporal_factor = max(0.0, 1.0 - days_old / retention_period), in 1/600
\* after its weight 0.2.
TemporalTerm(memory, current_time) ==
    Max(0, (120 * (RetentionPeriod - (current_time - memory.timestamp)))
               \div RetentionPeriod)

\* access_boost = min(0.2, 0.02 * access_count), in 1/600.
AccessBoost(memory) == Min(120, 12 * memory.access_count)

\* The relevance with the weights of the semantic and the resonance term
\* exchanged (0.1 and 0.4).
RelevanceWeightsSwapped(query, context, memory, current_time) ==
      10 * SemanticRelevance(query, memory.semantic_content)
    + 3 * ContextRelevance(context, memory.context)
    + TemporalTerm(memory, current_time)
    + 24 * memory.resonance
    + AccessBoost(memory)

\* The relevance of one memory, lines 175-181, in 1/600.
Relevance(query, context, memory, current_time) ==
      40 * SemanticRelevance(query, memory.semantic_content)
    + 3 * ContextRelevance(context, memory.context)
    + TemporalTerm(memory, current_time)
    + 6 * memory.resonance
    + AccessBoost(memory)

\* A descending sort that puts pairs of equal key in reverse order.
SortDescReversingTies(pairs) ==
    LET rank == [i \in DOMAIN pairs |->
                    1 + Cardinality({ j \in DOMAIN pairs :
                            \/ pairs[j][2] > pairs[i][2]
                            \/ (pairs[j][2] = pairs[i][2] /\ j > i) })]
    IN  [r \in DOMAIN pairs |-> pairs[CHOOSE i \in DOMAIN pairs : rank[i] = r]]

\* list.sort(key=..., reverse=True) on a list of <<item, key>> pairs.  The
\* sort is stable: a pair goes behind every pair of greater key and behind
\* the earlier pairs of equal key.
SortDesc(pairs) ==
    LET rank == [i \in DOMAIN pairs |->
                    1 + Cardinality({ j \in DOMAIN pairs :
                            \/ pairs[j][2] > pairs[i][2]
                            \/ (pairs[j][2] = pairs[i][2] /\ j < i) })]
    IN  [r \in DOMAIN pairs |-> pairs[CHOOSE i \in DOMAIN pairs : rank[i] = r]]

\* ---------------------------------------------------------------- prune
\* The age rule with resonance >= 0.8 as the exemption.
KeepByAgeInclusive(mems, current_time) ==
    SelectSeq(mems, LAMBDA m :
        (current_time - m.timestamp < RetentionPeriod)
            \/ (m.resonance >= HighResonance))

\* The age rule of _prune_memories, lines 266-270.
KeepByAge(mems, current_time) ==
    SelectSeq(mems, LAMBDA m :
        (current_time - m.timestamp < RetentionPeriod)
            \/ (m.resonance > HighResonance))

\* The capacity rule keeping the newest entries instead of the most resonant.
KeepNewest(mems) ==
    IF Len(mems) > Capacity
    THEN SubSeq(mems, Len(mems) - Capacity + 1, Len(mems))
    ELSE mems

\* The capacity rule, lines 273-275.
KeepByCapacity(mems) ==
    IF Len(mems) > Capacity
    THEN LET sorted == SortDesc([i \in DOMAIN mems |->
                                    <<mems[i], mems[i].resonance>>])
         IN  [i \in 1..Capacity |-> sorted[i][1]]
    ELSE mems

\* EdenMemory._prune_memories
PruneMemories(mems, current_time) ==
    KeepByCapacity(KeepByAge(mems, current_time))

\* -------------------------------------------------------------- retrieve
\* scored_memories after the sort of line 186: <<index in memories, score>>.
ScoredMemories(mems, query, context, current_time) ==
    SortDesc([i \in DOMAIN mems |->
                <<i, Relevance(query, context, mems[i], current_time)>>])

\* The selection with >= 0.6 as the acceptance test.
SelectedInclusive(enabled, mems, query, context, current_time) ==
    IF ~enabled \/ mems = <<>> THEN 0
    ELSE LET scored == ScoredMemories(mems, query, context, current_time)
         IN  IF scored[1][2] >= RelevanceThreshold THEN scored[1][1] ELSE 0

\* The selection passing over the entries that the age rule of
\* _prune_memories would remove.
SelectedWithinWindow(enabled, mems, query, context, current_time) ==
    IF ~enabled \/ mems = <<>> THEN 0
    ELSE LET scored == SelectSeq(
                 ScoredMemories(mems, query, context, current_time),
                 LAMBDA p :
                     (current_time - mems[p[1]].timestamp < RetentionPeriod)
                         \/ (mems[p[1]].resonance > HighResonance))
         IN  IF scored # <<>> /\ scored[1][2] > RelevanceThreshold
             THEN scored[1][1] ELSE 0

\* The index retrieve selects, 0 when it returns "".
Selected(enabled, mems, query, context, current_time) ==
    IF ~enabled \/ mems = <<>> THEN 0
    ELSE LET scored == ScoredMemories(mems, query, context, current_time)
         IN  IF scored[1][2] > RelevanceThreshold THEN scored[1][1] ELSE 0

\* f"Memory ({timestamp_str}): {semantic_content}"; "" is <<>>.
Format(memory) == <<"Memory", memory.timestamp, memory.semantic_content>>

\* ----------------------------------------------------------------- state
\* last: the operation, its arguments, what it returned, the index retrieve
\* selected (0: none) and how many entries the capacity rule dropped.
Did(op, input, result, selected, dropped) ==
    [op |-> op, input |-> input, result |-> result, selected |-> selected,
     dropped |-> dropped]

\* EdenMemory.__init__ of a first run: there is no document yet.
MemInit ==
    /\ memEnabled \in BOOLEAN
    /\ doc = AbsentDoc
    /\ memories = LoadMemories(doc)
    /\ proc = "up"
    /\ now = 0
    /\ steps = 0
    /\ last = Did("init", <<>>, <<>>, 0, 0)

\* EdenMemory.store
Store(content, context, resonance) ==
    /\ proc = "up"
    /\ steps < MaxSteps
    /\ steps' = steps + 1
    /\ IF ~memEnabled
       THEN /\ last' = Did("store", <<content, context, resonance>>, <<>>, 0, 0)
            /\ UNCHANGED <<memories, doc>>
       ELSE LET memory == NewEntry(content, context, now, resonance)
                appended == Append(memories, memory)
                pruned == PruneMemories(appended, now)
            IN  /\ memories' = pruned
                /\ doc' = SaveMemories(pruned)
                /\ last' = Did("store", <<content, context, resonance>>, <<>>,
                               0, Len(KeepByAge(appended, now)) - Len(pruned))
    /\ UNCHANGED <<memEnabled, proc, now>>
    /\ UNCHANGED <<govVars, pipeVars>>

\* EdenMemory.retrieve
Retrieve(query, context) ==
    /\ proc = "up"
    /\ steps < MaxSteps
    /\ steps' = steps + 1
    /\ LET sel == Selected(memEnabled, memories, query, context, now)
       IN  IF sel = 0
           THEN /\ last' = Did("retrieve", <<query, context>>, <<>>, 0, 0)
                /\ UNCHANGED <<memories, doc>>
           ELSE LET accessed == [memories EXCEPT
                                    ![sel] = Access(memories[sel], now)]
                IN  /\ memories' = accessed
                    /\ doc' = SaveMemories(accessed)
                    /\ last' = Did("retrieve", <<query, context>>,
                                   Format(memories[sel]), sel, 0)
    /\ UNCHANGED <<memEnabled, proc, now>>
    /\ UNCHANGED <<govVars, pipeVars>>

\* The clock.
Tick(days) ==
    /\ steps < MaxSteps
    /\ now + days <= MaxTime
    /\ now' = now + days
    /\ steps' = steps + 1
    /\ last' = Did("tick", <<>>, <<>>, 0, 0)
    /\ UNCHANGED <<memEnabled, memories, doc, proc>>
    /\ UNCHANGED <<govVars, pipeVars>>

\* The file is damaged from outside the program: deleted, truncated, or one
\* key of its first record lost.
DamageDocument(kind) ==
    /\ steps < MaxSteps
    /\ steps' = steps + 1
    /\ last' = Did("damage", <<>>, <<>>, 0, 0)
    /\ \/ kind = "absent" /\ doc' = AbsentDoc
       \/ kind = "unparsable" /\ doc' = UnparsableDoc
       \/ /\ kind \in EntryKeys
          /\ doc.kind = "list"
          /\ doc.records # <<>>
          /\ doc' = [doc EXCEPT !.records[1].missing = @ \cup {kind}]
    /\ UNCHANGED <<memEnabled, memories, proc, now>>
    /\ UNCHANGED <<govVars, pipeVars>>

\* The process ends and a new one constructs the store: EdenMemory.__init__.
Restart ==
    /\ steps < MaxSteps
    /\ steps' = steps + 1
    /\ last' = Did("restart", <<>>, <<>>, 0, 0)
    /\ memories' = LoadMemories(doc)
    /\ proc' = IF LoadRaises(doc) THEN "crashed" ELSE "up"
    /\ UNCHANGED <<memEnabled, doc, now>>
    /\ UNCHANGED <<govVars, pipeVars>>

MemNext ==
    \/ \E in \in StoreInputs : Store(in[1], in[2], in[3])
    \/ \E in \in RetrieveInputs : Retrieve(in[1], in[2])
    \/ \E d \in TickDays : Tick(d)
    \/ \E k \in {"absent", "unparsable", "semantic_content", "access_count"} :
           DamageDocument(k)
    \/ Restart

\* ======================================================== Energy Governor
\* Two classes are governors: EdenEnergy with its subclass
\* energy/adaptive_energy.py:EdenAdaptiveEnergy ("legacy", boolean results),
\* the one cli.py and app.py import, and
\* energy/adaptive_energy_enhanced.py:EdenAdaptiveEnergy ("enhanced", tuple
\* results).  energy.class tells which one the object is.

\* ------------------------------------------------------ exact arithmetic
\* A float is modelled by the exact fraction <<numerator, denominator>> in
\* lowest terms, denominator > 0.
RECURSIVE GCD(_, _)
GCD(a, b) == IF b = 0 THEN a ELSE GCD(b, a % b)
Rat(n, d) == LET g == GCD(Abs(n), d) IN <<n \div g, d \div g>>
RAdd(x, y) ==
    LET g == GCD(x[2], y[2])
    IN  Rat(x[1] * (y[2] \div g) + y[1] * (x[2] \div g),
            (x[2] \div g) * y[2])
RMul(x, y) ==
    LET a == Rat(x[1], y[2])
        b == Rat(y[1], x[2])
    IN  <<a[1] * b[1], a[2] * b[2]>>
RDiv(x, y) == Rat(x[1] * y[2], x[2] * y[1])
RLess(x, y) == x[1] * y[2] < y[1] * x[2]
RMax(x, y) == IF RLess(x, y) THEN y ELSE x
RMin(x, y) == IF RLess(y, x) THEN y ELSE x
Zero == <<0, 1>>
One == <<1, 1>>

\* ----------------------------------------------------- program constants
SecondsPerDay == 86400
CheckInterval == 60            \* config.get('check_interval', 60)
SourceCheckInterval == 60      \* config.get('source_check_interval', 60)
DeltaUpdateInterval == 300     \* config.get('delta_update_interval', 300)
BaseDelta == 5                 \* config.get('energy_justice_delta', 5.0)
SleepThreshold == <<2, 5>>     \* EdenEnergy: config.get('sleep_threshold', 0.4)
ShutdownThreshold == <<1, 5>>  \* EdenEnergy: config.get('shutdown_threshold', 0.2)
CriticalThreshold == <<1, 5>>  \* enhanced: critical_threshold = 0.2
\* The cap of the energy log.  The code's cap is the literal 100; the model
\* runs the same rule with a cap that MaxSteps calls can exceed.
LogCapacity == 2

Profiles == {"eco", "balanced", "performance"}
\* energy_profiles[p]['sleep_threshold'] of the enhanced governor
ProfileSleepThreshold(p) ==
    CASE p = "eco" -> <<7, 10>>
      [] p = "balanced" -> <<1, 2>>
      [] OTHER -> <<3, 10>>
\* profile_factors of _estimate_energy_consumption
ProfileFactor(p) ==
    CASE p = "eco" -> <<7, 10>>
      [] p = "balanced" -> One
      [] p = "performance" -> <<3, 2>>
      [] OTHER -> One

\* ------------------------------------------------------ what psutil reads
\* One reading of the machine: CPU and memory load in percent, whether a
\* battery is present, whether it is plugged, its charge in percent, the
\* hour of the day and whether the day is a Saturday or Sunday.  A call of
\* the governor takes one reading.
Reading(cpu, mem, battery, plugged, percent, hour, weekend) ==
    [cpu |-> cpu, mem |-> mem, battery |-> battery, plugged |-> plugged,
     percent |-> percent, hour |-> hour, weekend |-> weekend]
Idle == Reading(20, 40, FALSE, TRUE, 100, 12, FALSE)
Busy == Reading(100, 100, FALSE, TRUE, 100, 23, TRUE)
Plugged == Reading(60, 60, TRUE, TRUE, 40, 9, FALSE)
OnBattery == Reading(40, 40, TRUE, FALSE, 10, 9, FALSE)
BusyOnBattery == Reading(100, 100, TRUE, FALSE, 40, 9, FALSE)
Readings == {Idle, Busy, Plugged, OnBattery, BusyOnBattery}
\* The readings at the construction of the governor.
InitReadings == {Idle, OnBattery}
\* (truth_value in tenths, processing_time in seconds as a fraction, the
\* reading during the call)
TrackInputs ==
    { <<0, <<2, 1>>, Busy>>,
      <<9, <<1, 2>>, Idle>>,
      <<8, <<0, 1>>, OnBattery>> }
TickSecs == {61, 300}
Platforms == {"Linux", "Windows"}

\* time.time() in seconds
Time == now * SecondsPerDay + secs

\* ---------------------------------------------------------- construction
\* _is_on_battery: psutil's battery, not plugged; without a battery the
\* fallbacks find none.
IsOnBattery(r) == r.battery /\ ~r.plugged

\* The factors of _calculate_energy_justice_delta, lines 186-229.
TimeFactor(hour) ==
    IF 22 <= hour \/ hour < 6 THEN <<6, 5>>
    ELSE IF 10 <= hour /\ hour <= 14 THEN <<4, 5>>
    ELSE One
\* The delta with the clamp max(1.0, min(10.0, delta)) left out.
FreshDeltaUnclamped(on_battery, r) ==
    LET timed == RMul(<<BaseDelta, 1>>, TimeFactor(r.hour))
        load_adjustment == Rat(200 - r.cpu, 200)
        loaded == RMul(timed, load_adjustment)
        battery_factor == IF r.battery /\ r.percent < 30 THEN <<3, 2>>
                          ELSE <<6, 5>>
        powered == IF on_battery THEN RMul(loaded, battery_factor) ELSE loaded
    IN  IF r.weekend THEN RMul(powered, <<9, 10>>) ELSE powered
FreshDelta(on_battery, r) ==
    LET delta == FreshDeltaUnclamped(on_battery, r)
    IN  RMax(One, RMin(<<10, 1>>, delta))

\* EdenEnergy.__init__ followed by EdenAdaptiveEnergy.__init__ (legacy), or
\* the enhanced EdenAdaptiveEnergy.__init__, at time t with reading r.  A
\* field the class does not have keeps the value given here.
NewEnergy(class, enabled, platform, r, t) ==
    [class |-> class, enabled |-> enabled, platform |-> platform,
     total_energy_used |-> Zero, total_truth_generated |-> Zero,
     energy_justice_ratio |-> One,
     is_sleeping |-> FALSE, last_check_time |-> t,
     current_profile |-> "balanced", profile_changes |-> <<>>,
     on_battery |-> IF class = "enhanced" THEN IsOnBattery(r) ELSE FALSE,
     last_source_check |-> t,
     energy_justice_delta |->
         IF class = "enhanced" THEN FreshDelta(IsOnBattery(r), r) ELSE One,
     last_delta_update |-> t,
     energy_log |-> <<>>]

\* ------------------------------------------------------------ operations
\* _calculate_energy_justice_delta without its cache: a fresh value at
\* every call.
CalculateEnergyJusticeDeltaUncached(e, r, t) ==
    [e EXCEPT !.energy_justice_delta = FreshDelta(e.on_battery, r),
              !.last_delta_update = t]

\* _calculate_energy_justice_delta after construction: the cached value
\* within the update interval, a fresh one otherwise.
CalculateEnergyJusticeDelta(e, r, t) ==
    IF t - e.last_delta_update < DeltaUpdateInterval THEN e
    ELSE [e EXCEPT !.energy_justice_delta = FreshDelta(e.on_battery, r),
                   !.last_delta_update = t]

\* EdenEnergy._get_context_factor
ContextFactor == One

\* _estimate_energy_consumption of either class.
SystemFactor(platform) ==
    CASE platform = "Darwin" -> <<4, 5>>
      [] platform = "Windows" -> <<6, 5>>
      [] OTHER -> One
EstimateEnergyConsumption(e, processing_time, r) ==
    IF e.class = "legacy"
    THEN RMul(RMul(Rat(r.cpu, 100), processing_time), SystemFactor(e.platform))
    ELSE LET cpu_power_factor == RAdd(One, Rat(2 * r.cpu, 100))
             memory_factor == Rat(r.mem, 200)
             consumed == RMul(RMul(processing_time,
                                   RAdd(cpu_power_factor, memory_factor)),
                              ProfileFactor(e.current_profile))
         IN  RMax(<<1, 10>>, consumed)

\* The instantaneous justice of the enhanced track_energy_use, lines 265-268.
EnergyJustice(truth_value, delta, energy_used) ==
    IF RLess(Zero, energy_used)
    THEN RDiv(RMul(truth_value, delta), energy_used)
    ELSE One

\* line 271: (0.7 * self.energy_justice_ratio) + (0.3 * energy_justice)
Smoothed(ratio, energy_justice) ==
    RAdd(RMul(<<7, 10>>, ratio), RMul(<<3, 10>>, energy_justice))

\* The cut keeping the first LogCapacity records, energy_log[:100].
LoggedKeepingOldest(log, record) ==
    LET appended == Append(log, record)
    IN  IF Len(appended) > LogCapacity
        THEN SubSeq(appended, 1, LogCapacity)
        ELSE appended

\* energy_log.append(...) and the cut to the last LogCapacity records.
Logged(log, record) ==
    LET appended == Append(log, record)
    IN  IF Len(appended) > LogCapacity
        THEN SubSeq(appended, Len(appended) - LogCapacity + 1, Len(appended))
        ELSE appended

\* track_energy_use: the governor after the call.  truth_value and
\* processing_time are fractions.
TrackEnergyUse(e, truth_value, processing_time, r, t) ==
    IF ~e.enabled THEN e
    ELSE IF e.class = "legacy"
    THEN LET energy_used == EstimateEnergyConsumption(e, processing_time, r)
             total_energy == RAdd(e.total_energy_used, energy_used)
             total_truth == RAdd(e.total_truth_generated, truth_value)
         IN  [e EXCEPT !.total_energy_used = total_energy,
                       !.total_truth_generated = total_truth,
                       !.energy_justice_ratio =
                           IF RLess(Zero, total_energy)
                           THEN RDiv(RMul(total_truth, ContextFactor),
                                     total_energy)
                           ELSE @]
    ELSE LET d == CalculateEnergyJusticeDelta(e, r, t)
             delta == d.energy_justice_delta
             energy_used == EstimateEnergyConsumption(e, processing_time, r)
             energy_justice == EnergyJustice(truth_value, delta, energy_used)
             ratio == Smoothed(e.energy_justice_ratio, energy_justice)
         IN  [d EXCEPT !.total_energy_used = RAdd(@, energy_used),
                       !.energy_justice_ratio = ratio,
                       !.energy_log = Logged(@,
                           [timestamp |-> t, truth_value |-> truth_value,
                            processing_time |-> processing_time,
                            energy_used |-> energy_used, delta |-> delta,
                            energy_justice |-> energy_justice,
                            energy_justice_ratio |-> ratio])]

\* The dict track_energy_use returns, given the governor before (e) and
\* after (e2) the call.  A disabled governor reports a ratio of 1.0.
TrackMetrics(e, e2, processing_time, r) ==
    [energy_used |->
         IF e.enabled THEN EstimateEnergyConsumption(e, processing_time, r)
         ELSE Zero,
     energy_justice_ratio |->
         IF e.enabled THEN e2.energy_justice_ratio ELSE One,
     has_total |-> e.class = "enhanced",
     total_energy_used |-> IF e.enabled THEN e2.total_energy_used ELSE Zero,
     has_delta |-> e.class = "enhanced" /\ e.enabled,
     delta |-> e2.energy_justice_delta]

\* should_sleep: <<what it returns, the governor after the call>>.  The
\* legacy class returns a bool, answers from is_sleeping until
\* check_interval seconds have passed since the last evaluation, and sets
\* is_sleeping when it evaluates; the enhanced class returns a tuple and
\* changes nothing.
ShouldSleep(e, t) ==
    IF ~e.enabled THEN <<FALSE, e>>
    ELSE IF e.class = "legacy"
    THEN IF t - e.last_check_time < CheckInterval
         THEN <<e.is_sleeping, e>>
         ELSE LET sleep == RLess(e.energy_justice_ratio, SleepThreshold)
              IN  <<sleep, [e EXCEPT !.last_check_time = t,
                                     !.is_sleeping = sleep]>>
    ELSE <<RLess(e.energy_justice_ratio,
                 ProfileSleepThreshold(e.current_profile)), e>>

\* should_shutdown comparing with the threshold of should_sleep.
ShouldShutdownAtSleepThreshold(e) ==
    /\ e.enabled
    /\ RLess(e.energy_justice_ratio,
             IF e.class = "legacy" THEN SleepThreshold
             ELSE ProfileSleepThreshold(e.current_profile))
\* should_shutdown: the flag it returns (alone, or first in a tuple).
ShouldShutdown(e) ==
    /\ e.enabled
    /\ RLess(e.energy_justice_ratio,
             IF e.class = "legacy" THEN ShutdownThreshold
             ELSE CriticalThreshold)

\* True when a call returns a tuple (flag, details), false for a bare bool.
ReturnsTuple(e) == e.class = "enhanced"

\* wake() that also restores the ratio of a fresh governor.
WakeResettingRatio(e) ==
    [e EXCEPT !.is_sleeping = FALSE, !.energy_justice_ratio = One]

\* EdenEnergy.wake; the enhanced class has no such method.
HasWake(e) == e.class = "legacy"
Wake(e) == [e EXCEPT !.is_sleeping = FALSE]

\* select_energy_profile of either class: the governor after the call.
SelectEnergyProfile(e, r, t) ==
    IF e.class = "legacy"
    THEN LET selected_profile ==
                 IF r.battery /\ ~r.plugged
                 THEN IF r.percent < 20 THEN "eco"
                      ELSE IF r.percent < 50 THEN "balanced"
                      ELSE "performance"
                 ELSE "performance"
         IN  IF selected_profile # e.current_profile
             THEN [e EXCEPT !.current_profile = selected_profile,
                            !.profile_changes =
                                Append(@, <<e.current_profile,
                                            selected_profile>>)]
             ELSE e
    ELSE LET on_battery == IF t - e.last_source_check > SourceCheckInterval
                           THEN IsOnBattery(r) ELSE e.on_battery
             checked == IF t - e.last_source_check > SourceCheckInterval
                        THEN t ELSE e.last_source_check
             profile ==
                 IF on_battery
                 THEN IF r.cpu > 70 \/ r.mem > 80 THEN "eco" ELSE "balanced"
                 ELSE IF r.cpu < 30 /\ r.mem < 50 THEN "performance"
                      ELSE IF r.cpu > 80 \/ r.mem > 90 THEN "eco"
                      ELSE "balanced"
         IN  [e EXCEPT !.on_battery = on_battery,
                       !.last_source_check = checked,
                       !.current_profile = profile]

\* get_energy_status of the legacy class (energy_module.py, extended in
\* adaptive_energy.py): the fields it reports.  The enhanced class has no
\* such method.
HasEnergyStatus(e) == e.class = "legacy"
GetEnergyStatus(e) ==
    [energy_justice_ratio |-> e.energy_justice_ratio,
     total_energy_used |-> e.total_energy_used,
     total_truth_generated |-> e.total_truth_generated,
     is_sleeping |-> e.is_sleeping,
     current_profile |-> e.current_profile]

\* get_energy_report of the enhanced class: <<the report, the governor after
\* the call>>.  It calls select_energy_profile(), then should_sleep() and
\* should_shutdown().  The legacy class has no such method.
HasEnergyReport(e) == e.class = "enhanced"
GetEnergyReport(e, r, t) ==
    LET selected == SelectEnergyProfile(e, r, t)
        slept == ShouldSleep(selected, t)
    IN  <<[current_profile |-> selected.current_profile,
           total_energy_used |-> selected.total_energy_used,
           energy_justice_ratio |-> selected.energy_justice_ratio,
           energy_justice_delta |-> selected.energy_justice_delta,
           recent_energy_log |-> selected.energy_log,
           sleep_status |-> slept[1],
           shutdown_status |-> ShouldShutdown(slept[2])],
          slept[2]>>

\* ---------------------------------------------------------------- state
Called(op, input, result) == [op |-> op, input |-> input, result |-> result]
NoCall == Called("init", <<>>, <<>>)

\* The governors a process can construct at time 0.
GovInit ==
    /\ energy \in
           { NewEnergy("legacy", en, p, Idle, 0) :
                 en \in BOOLEAN, p \in Platforms }
           \cup { NewEnergy("enhanced", en, "Linux", r, 0) :
                      en \in BOOLEAN, r \in InitReadings }
    /\ secs = 0
    /\ glast = NoCall

\* No governor call is made: the Memory Store on its own.
GovIdle ==
    /\ energy = NewEnergy("legacy", TRUE, "Linux", Idle, 0)
    /\ secs = 0
    /\ glast = NoCall

\* No store call is made: the governor on its own.
MemIdle ==
    /\ memEnabled = TRUE
    /\ doc = AbsentDoc
    /\ memories = LoadMemories(doc)
    /\ proc = "up"
    /\ now = 0
    /\ steps = 0
    /\ last = Did("init", <<>>, <<>>, 0, 0)

\* track_energy_use(truth / 10, processing_time)
GovTrack(truth, processing_time, r) ==
    /\ steps < MaxCalls
    /\ steps' = steps + 1
    /\ LET after == TrackEnergyUse(energy, Rat(truth, 10), processing_time,
                                   r, Time)
       IN  /\ energy' = after
           /\ glast' = Called("track", <<Rat(truth, 10), processing_time, r>>,
                              TrackMetrics(energy, after, processing_time, r))
    /\ UNCHANGED <<memVars, secs, pipeVars>>

\* should_sleep()
GovShouldSleep ==
    /\ steps < MaxCalls
    /\ steps' = steps + 1
    /\ LET answer == ShouldSleep(energy, Time)
       IN  /\ energy' = answer[2]
           /\ glast' = Called("should_sleep", <<>>, answer[1])
    /\ UNCHANGED <<memVars, secs, pipeVars>>

\* should_shutdown()
GovShouldShutdown ==
    /\ steps < MaxCalls
    /\ steps' = steps + 1
    /\ glast' = Called("should_shutdown", <<>>, ShouldShutdown(energy))
    /\ UNCHANGED <<memVars, energy, secs, pipeVars>>

\* wake(); on the enhanced class the call raises AttributeError.
GovWake ==
    /\ steps < MaxCalls
    /\ steps' = steps + 1
    /\ IF HasWake(energy)
       THEN /\ energy' = Wake(energy)
            /\ glast' = Called("wake", <<>>, "None")
       ELSE /\ energy' = energy
            /\ glast' = Called("wake", <<>>, "AttributeError")
    /\ UNCHANGED <<memVars, secs, pipeVars>>

\* select_energy_profile()
GovSelectProfile(r) ==
    /\ steps < MaxCalls
    /\ steps' = steps + 1
    /\ LET after == SelectEnergyProfile(energy, r, Time)
       IN  /\ energy' = after
           /\ glast' = Called("select_energy_profile", <<r>>,
                              after.current_profile)
    /\ UNCHANGED <<memVars, secs, pipeVars>>

\* get_energy_status(); on the enhanced class the call raises AttributeError.
GovStatus ==
    /\ steps < MaxCalls
    /\ steps' = steps + 1
    /\ glast' = Called("get_energy_status", <<>>,
                       IF HasEnergyStatus(energy)
                       THEN GetEnergyStatus(energy) ELSE "AttributeError")
    /\ UNCHANGED <<memVars, energy, secs, pipeVars>>

\* get_energy_report(); on the legacy class the call raises AttributeError.
GovReport(r) ==
    /\ steps < MaxCalls
    /\ steps' = steps + 1
    /\ IF HasEnergyReport(energy)
       THEN LET report == GetEnergyReport(energy, r, Time)
            IN  /\ energy' = report[2]
                /\ glast' = Called("get_energy_report", <<r>>, report[1])
       ELSE /\ energy' = energy
            /\ glast' = Called("get_energy_report", <<r>>, "AttributeError")
    /\ UNCHANGED <<memVars, secs, pipeVars>>

\* The clock, in seconds.
TickSeconds(s) ==
    /\ steps < MaxCalls
    /\ secs + s <= MaxSeconds
    /\ secs' = secs + s
    /\ steps' = steps + 1
    /\ glast' = Called("tick", <<s>>, <<>>)
    /\ UNCHANGED <<memVars, energy, pipeVars>>

EnergyNext ==
    \/ \E in \in TrackInputs : GovTrack(in[1], in[2], in[3])
    \/ GovShouldSleep
    \/ GovShouldShutdown
    \/ GovWake
    \/ \E r \in Readings : GovSelectProfile(r)
    \/ GovStatus
    \/ \E r \in Readings : GovReport(r)
    \/ \E s \in TickSecs : TickSeconds(s)

\* ======================================================== Resilience Gate
CollapseThreshold == <<3, 10>>     \* resonance_collapse_threshold, 0.3
CorruptionThreshold == <<2, 5>>    \* ethical_corruption_threshold, 0.4

\* problematic_patterns, on a text given as its words: the first two
\* patterns are single words, the other three a verb followed by an object.
ProblemWords ==
    {"hack", "exploit", "attack", "destroy", "harm", "hurt", "kill", "damage",
     "illegal", "unlawful", "criminal"}
ProblemPairs ==
    ({"bypass", "circumvent", "evade", "avoid"}
        \X {"security", "protection", "safety", "ethics", "limits"})
    \cup ({"manipulate", "deceive", "trick", "fool"}
        \X {"human", "person", "user", "system"})
    \cup ({"ignore", "override", "disable"}
        \X {"ethics", "rules", "limitations", "constraints", "boundaries"})

\* EdenResilience._contains_problematic_patterns
ContainsProblematicPatterns(text) ==
    \/ \E i \in DOMAIN text : text[i] \in ProblemWords
    \/ \E i \in DOMAIN text :
           i + 1 \in DOMAIN text /\ <<text[i], text[i + 1]>> \in ProblemPairs

\* The values of context['ethical_alignment'], and their sum in tenths.
AlignmentKeys(context) ==
    IF context.has_alignment
    THEN { d \in Dimensions : context.ethical_alignment[d] # Absent }
    ELSE {}
RECURSIVE SumValues(_, _)
SumValues(keys, f) ==
    IF keys = {} THEN 0
    ELSE LET k == CHOOSE x \in keys : TRUE
         IN  f[k] + SumValues(keys \ {k}, f)

\* 1 - x, the division by the threshold forgotten.
ShortfallUnscaled(x, threshold) ==
    IF RLess(x, One) THEN Rat(x[2] - x[1], x[2]) ELSE Zero

\* 1 - x / threshold, cut to [0, 1]
Shortfall(x, threshold) ==
    IF RLess(x, threshold)
    THEN LET q == RDiv(x, threshold) IN Rat(q[2] - q[1], q[2])
    ELSE Zero

\* EdenResilience.exit_readiness(input_text, context): a fraction in [0, 1].
ExitReadiness(enabled, text, context) ==
    IF ~enabled THEN Zero
    ELSE LET pattern == IF ContainsProblematicPatterns(text) THEN <<7, 10>>
                        ELSE Zero
             collapse ==
                 IF context.nonempty /\ context.resonance_value # Absent
                 THEN Shortfall(Rat(context.resonance_value, 10),
                                CollapseThreshold)
                 ELSE Zero
             keys == AlignmentKeys(context)
             corruption ==
                 IF context.nonempty /\ keys # {}
                 THEN Shortfall(Rat(SumValues(keys, context.ethical_alignment),
                                    10 * Cardinality(keys)),
                                CorruptionThreshold)
                 ELSE Zero
         IN  RMin(One, RMax(pattern, RMax(collapse, corruption)))

\* ================================================================ pipeline
\* cli.py:process_input and the handlers of app.py.  Both front ends
\* construct the governor of energy/adaptive_energy.py (the legacy class).
\*
\* A request is its text, what the scorers return for the text (the intent
\* analysis and the truth value, in tenths), the time the processing takes
\* and the reading of the machine while it runs.
Request(text, signal, truth, processing_time, r) ==
    [text |-> text, signal |-> signal, truth |-> truth,
     processing_time |-> processing_time, reading |-> r]
Signal(resonance_value, truth_alignment) ==
    [nonempty |-> TRUE, resonance_value |-> resonance_value,
     resonance |-> Absent, has_alignment |-> TRUE,
     ethical_alignment |->
         [d \in Dimensions |-> IF d = "truth" THEN truth_alignment ELSE 6]]
Requests ==
    { Request(<<"life">>, Signal(8, 8), 9, <<1, 2>>, Idle),
      Request(<<"meaning", "life">>, Signal(5, 6), 6, <<1, 2>>, Idle),
      Request(<<"truth">>, Signal(8, 2), 0, <<2, 1>>, Busy),
      Request(<<"destroy", "life">>, Signal(7, 2), 8, <<2, 1>>, Busy) }

ExitThreshold == <<7, 10>>        \* exit_readiness > 0.7
ResonanceMinimum == 6             \* resonance_value < 0.6, in tenths
StoreThreshold == <<3, 4>>        \* semantic_truth > 0.75
\* config['modules']['intent']['threshold'] of app.py, from core_config.json
WakeThreshold == 7
PerceptionTruth == <<1, 2>>       \* perception_truth = 0.5

\* EdenInterface.process_input: text.strip(); the words stay the same.
ProcessInput(text) == text
\* EdenIntent.analyze and EdenLogic.evaluate on the request's text.
Analyze(q) == q.signal
Evaluate(q) == Rat(q.truth, 10)

\* EdenResilience has exit_readiness and no should_exit: the call
\* resilience_module.should_exit(...) of app.py raises AttributeError.
HasShouldExit == FALSE

\* How a request ended and the calls it made on the modules, in order.
Ended(op, q, outcome, calls) ==
    [op |-> op, input |-> q, outcome |-> outcome, calls |-> calls]

NoRequest == Ended("init", <<>>, "none", <<>>)

\* A request of the server: where its handler stands, what was posted, the
\* governor fields its track_energy_use has read, and the request whose
\* handler was running when it arrived (0 for none).
Task(pc, input, snapshot, arrived_during) ==
    [pc |-> pc, input |-> input, snapshot |-> snapshot,
     arrived_during |-> arrived_during]
NoTask == Task("none", <<>>, <<>>, 0)
\* No request is in flight.
LoopIdle ==
    /\ tasks = [i \in 1..MaxTasks |-> NoTask]
    /\ running = 0

\* The Answered path storing whatever the truth value is.
RetrieveThenStoreAlways(q) ==
    LET text == ProcessInput(q.text)
        sel == Selected(memEnabled, memories, text, Analyze(q), now)
        retrieved == IF sel = 0 THEN memories
                     ELSE [memories EXCEPT ![sel] = Access(memories[sel], now)]
        stored == PruneMemories(
                      Append(retrieved,
                             NewEntry(text, Analyze(q), now, q.truth)),
                      now)
    IN  IF memEnabled
        THEN <<stored, SaveMemories(stored), <<"retrieve", "store">>>>
        ELSE <<retrieved, doc, <<"retrieve", "store">>>>

\* retrieve followed by the conditional store of the Answered path:
\* <<memories, doc, calls>> after them.
RetrieveThenStore(q) ==
    LET text == ProcessInput(q.text)
        sel == Selected(memEnabled, memories, text, Analyze(q), now)
        retrieved == IF sel = 0 THEN memories
                     ELSE [memories EXCEPT ![sel] = Access(memories[sel], now)]
        saved == IF sel = 0 THEN doc ELSE SaveMemories(retrieved)
        storing == RLess(StoreThreshold, Evaluate(q))
        stored == PruneMemories(
                      Append(retrieved,
                             NewEntry(text, Analyze(q), now, q.truth)),
                      now)
    IN  IF storing /\ memEnabled
        THEN <<stored, SaveMemories(stored), <<"retrieve", "store">>>>
        ELSE <<retrieved, saved,
               IF storing THEN <<"retrieve", "store">> ELSE <<"retrieve">>>>

\* cli.py:process_input(user_input, modules), lines 130-252.  An exception
\* leaves the function for main's handler (lines 340-341: "Error: ..."):
\* outcome "Error".  Unpacking the bool of the legacy should_shutdown as
\* (flag, details) at line 147 raises TypeError.
CliProcessInput(q) ==
    /\ frontend.name = "cli"
    /\ proc = "up"
    /\ steps < MaxCalls
    /\ steps' = steps + 1
    /\ LET readiness == ExitReadiness(frontend.resilience_enabled, q.text,
                                      NoContext)
           slept == ShouldSleep(energy, Time)
           awake == IF energy.enabled THEN slept[2] ELSE energy
           checks == IF energy.enabled
                     THEN <<"exit_readiness", "should_shutdown", "should_sleep">>
                     ELSE <<"exit_readiness">>
           memory == RetrieveThenStore(q)
       IN  IF RLess(ExitThreshold, readiness)
           THEN /\ plast' = Ended("process", q, "RefusedEthics",
                                  <<"exit_readiness">>)
                /\ UNCHANGED <<memories, doc, energy>>
           ELSE IF energy.enabled /\ ~ReturnsTuple(energy)
           THEN /\ plast' = Ended("process", q, "Error",
                                  <<"exit_readiness", "should_shutdown">>)
                /\ UNCHANGED <<memories, doc, energy>>
           ELSE IF energy.enabled /\ ShouldShutdown(energy)
           THEN /\ plast' = Ended("process", q, "RefusedShutdown",
                                  <<"exit_readiness", "should_shutdown">>)
                /\ UNCHANGED <<memories, doc, energy>>
           ELSE IF energy.enabled /\ slept[1]
           THEN /\ plast' = Ended("process", q, "RefusedSleep", checks)
                /\ energy' = slept[2]
                /\ UNCHANGED <<memories, doc>>
           ELSE IF Analyze(q).resonance_value < ResonanceMinimum
           THEN /\ plast' = Ended("process", q, "RefusedLowResonance",
                                  checks \o <<"process_input", "analyze">>)
                /\ energy' = awake
                /\ UNCHANGED <<memories, doc>>
           ELSE /\ plast' = Ended("process", q, "Answered",
                                  checks
                                  \o <<"process_input", "analyze", "evaluate">>
                                  \o memory[3]
                                  \o IF energy.enabled
                                     THEN <<"track_energy_use">> ELSE <<>>)
                /\ memories' = memory[1]
                /\ doc' = memory[2]
                /\ energy' = TrackEnergyUse(awake, Evaluate(q),
                                            q.processing_time, q.reading,
                                            Time)
    /\ UNCHANGED <<memEnabled, proc, now, last, secs, glast, frontend,
                   loopVars>>

\* app.py:process_input, POST /process, lines 95-200.  Its first statement
\* calls resilience_module.should_exit, which EdenResilience does not have:
\* AttributeError, before any other module is called.
AppProcessInput(q) ==
    /\ frontend.name = "app"
    /\ proc = "up"
    /\ ~HasShouldExit
    /\ steps < MaxCalls
    /\ steps' = steps + 1
    /\ plast' = Ended("process", q, "Error", <<"should_exit">>)
    /\ UNCHANGED <<memVars, govVars, frontend, loopVars>>

\* app.py:process_multimodal_input, POST /process_multimodal, lines 202-319,
\* for a request with text (q.text # <<>>) or without, and with or without
\* image, audio or sensor data.  With a text the handler calls should_exit
\* (AttributeError); without, it tracks the energy of the perception step
\* with a truth value of 0.5.
AppProcessMultimodal(q, has_data) ==
    /\ frontend.name = "app"
    /\ proc = "up"
    /\ ~HasShouldExit
    /\ steps < MaxCalls
    /\ steps' = steps + 1
    /\ IF q.text # <<>>
       THEN /\ plast' = Ended("process_multimodal", q, "Error",
                              <<"should_exit">>)
            /\ energy' = energy
       ELSE IF has_data
       THEN /\ plast' = Ended("process_multimodal", q, "Processed",
                              <<"process_multimodal", "track_energy_use",
                                "get_energy_status">>)
            /\ energy' = TrackEnergyUse(energy, PerceptionTruth,
                                        q.processing_time, q.reading, Time)
       ELSE /\ plast' = Ended("process_multimodal", q, "Processed",
                              <<"get_energy_status">>)
            /\ energy' = energy
    /\ UNCHANGED <<memVars, secs, glast, frontend, loopVars>>

\* The requests of POST /process_multimodal: one with a text, two without.
MultimodalRequests ==
    { Request(<<"life">>, Signal(8, 8), 9, <<1, 2>>, Idle),
      Request(<<>>, Signal(0, 0), 0, <<2, 1>>, Busy),
      Request(<<>>, Signal(0, 0), 0, <<1, 2>>, Idle) }

PipeNext ==
    \/ \E q \in Requests : CliProcessInput(q)
    \/ \E q \in Requests : AppProcessInput(q)
    \/ \E q \in MultimodalRequests, has_data \in BOOLEAN :
           AppProcessMultimodal(q, has_data)
    \/ \E s \in TickSecs : TickSeconds(s)

\* The modules as initialize_modules (cli.py) and app.py construct them.
PipeInit ==
    /\ frontend \in [name : {"cli", "app"}, resilience_enabled : BOOLEAN]
    /\ plast = NoRequest
    /\ LoopIdle
    /\ energy \in { NewEnergy("legacy", en, "Linux", Idle, 0) :
                        en \in BOOLEAN }
    /\ secs = 0
    /\ glast = NoCall

\* ======================================================== specifications
\* No request is made.
PipeIdle ==
    /\ frontend = [name |-> "none", resilience_enabled |-> TRUE]
    /\ plast = NoRequest
    /\ LoopIdle

\* The Memory Store.
Init == MemInit /\ GovIdle /\ PipeIdle
Next == MemNext
Spec == Init /\ [][Next]_vars

\* The Energy Governor.
EnergyInit == MemIdle /\ GovInit /\ PipeIdle
SpecEnergy == EnergyInit /\ [][EnergyNext]_vars

\* The pipeline of a front end.
PipelineInit == MemInit /\ PipeInit
SpecPipeline == PipelineInit /\ [][PipeNext]_vars

\* The Resilience Gate called on its own, as test_system.py does, on a text
\* and a context.
GateTexts ==
    { <<>>, <<"help", "others">>, <<"hack", "system">>,
      <<"bypass", "security">>, <<"security", "bypass">>,
      <<"bypass", "the", "security">> }
GateAlignments ==
    { [has |-> FALSE, values |-> NoAlignment],
      [has |-> TRUE, values |-> NoAlignment] }
    \cup { [has |-> TRUE,
            values |-> [d \in Dimensions |->
                           IF d = "truth" THEN v[1] ELSE v[2]]] :
              v \in { <<0, 2>>, <<2, 4>>, <<4, 4>>, <<3, Absent>>,
                      <<10, Absent>> } }
GateContexts ==
    { [nonempty |-> (rv # Absent \/ al.has), resonance_value |-> rv,
       resonance |-> Absent, has_alignment |-> al.has,
       ethical_alignment |-> al.values] :
          rv \in {Absent, 0, 1, 2, 3, 5, 10}, al \in GateAlignments }

GateExitReadiness(text, context) ==
    /\ frontend.name = "gate"
    /\ plast' = Ended("exit_readiness",
                      [text |-> text, context |-> context],
                      ExitReadiness(frontend.resilience_enabled, text,
                                    context),
                      <<"exit_readiness">>)
    /\ UNCHANGED <<memVars, govVars, steps, frontend, loopVars>>

GateNext == \E text \in GateTexts, context \in GateContexts :
                GateExitReadiness(text, context)
GateInit ==
    /\ MemIdle
    /\ GovIdle
    /\ frontend \in [name : {"gate"}, resilience_enabled : BOOLEAN]
    /\ plast = NoRequest
    /\ LoopIdle
SpecGate == GateInit /\ [][GateNext]_vars

\* ------------------------------------------------------ app.py's server
\* uvicorn runs the handlers of app.py, declared "async def", as coroutines
\* on one event loop.  A handler keeps the loop until it awaits or returns,
\* and process_multimodal_input awaits nothing; run in a thread pool, as
\* handlers declared "def" are, it could start at any time.
EventLoopFreeInThreadPool(i) == TRUE
EventLoopFree(i) == running = 0

\* The bodies of POST /process_multimodal that reach track_energy_use:
\* no text, and sensor data.
TrackingRequests == { q \in MultimodalRequests : q.text = <<>> }

\* A request arrives at the server; it waits for the event loop.
AppReceive(i, q) ==
    /\ frontend.name = "server"
    /\ tasks[i].pc = "none"
    /\ tasks' = [tasks EXCEPT ![i] = Task("received", q, <<>>, running)]
    /\ UNCHANGED <<memVars, govVars, steps, frontend, plast, running>>

\* The handler starts and runs up to the reads of track_energy_use: the
\* perception step, then the totals and the ratio of the governor as
\* track_energy_use finds them.
AppTrackRead(i) ==
    /\ frontend.name = "server"
    /\ tasks[i].pc = "received"
    /\ EventLoopFree(i)
    /\ running' = i
    /\ tasks' = [tasks EXCEPT ![i].pc = "tracking", ![i].snapshot = energy]
    /\ UNCHANGED <<memVars, govVars, steps, frontend, plast>>

\* track_energy_use assigns the totals, the ratio and the log it computed
\* from what it read; the handler reads the status and returns.
AppTrackWrite(i) ==
    /\ frontend.name = "server"
    /\ tasks[i].pc = "tracking"
    /\ LET q == tasks[i].input
       IN  /\ energy' = TrackEnergyUse(tasks[i].snapshot, PerceptionTruth,
                                       q.processing_time, q.reading, Time)
           /\ plast' = Ended("process_multimodal", q, "Processed",
                             <<"process_multimodal", "track_energy_use",
                               "get_energy_status">>)
    /\ tasks' = [tasks EXCEPT ![i].pc = "done"]
    /\ running' = 0
    /\ UNCHANGED <<memVars, secs, glast, steps, frontend>>

ServerNext ==
    \/ \E i \in 1..MaxTasks, q \in TrackingRequests : AppReceive(i, q)
    \/ \E i \in 1..MaxTasks : AppTrackRead(i)
    \/ \E i \in 1..MaxTasks : AppTrackWrite(i)
ServerInit ==
    /\ MemIdle
    /\ energy \in { NewEnergy("legacy", en, "Linux", Idle, 0) :
                        en \in BOOLEAN }
    /\ secs = 0
    /\ glast = NoCall
    /\ frontend \in [name : {"server"}, resilience_enabled : BOOLEAN]
    /\ plast = NoRequest
    /\ LoopIdle
SpecServer == ServerInit /\ [][ServerNext]_vars

\* ================================================================ claims
Range(seq) == { seq[i] : i \in DOMAIN seq }
Count(seq, x) == Cardinality({ i \in DOMAIN seq : seq[i] = x })
Age(memory) == now - memory.timestamp
StoredEntry == NewEntry(last'.input[1], last'.input[2], now, last'.input[3])
Score(i) == Relevance(last'.input[1], last'.input[2], memories[i], now)

\* C1.  Eviction invariant: after every completed store on an enabled store
\* there are at most Capacity entries, and no entry older than the retention
\* period unless its resonance is above 0.8.
C1_EvictionInvariant ==
    (last.op = "store" /\ memEnabled) =>
        /\ Len(memories) <= Capacity
        /\ \A i \in DOMAIN memories :
               Age(memories[i]) > RetentionPeriod
                   => memories[i].resonance > HighResonance

\* A store completed on a full store that still holds an exempt old entry.
C1_Witness ==
    /\ last.op = "store" /\ memEnabled
    /\ last.dropped > 0
    /\ Len(memories) = Capacity
    /\ \E i \in DOMAIN memories : Age(memories[i]) > RetentionPeriod

\* C2.  Capacity eviction keeps the most resonant entries: when more than
\* Capacity entries remain after the age rule of a store, exactly Capacity
\* are kept, each of them one of those entries, and every evicted entry has
\* a resonance at most that of every kept entry.
C2_KeepsMostResonant ==
    [][ (last'.op = "store" /\ memEnabled) =>
          LET aged == KeepByAge(Append(memories, StoredEntry), now)
          IN  Len(aged) > Capacity =>
                /\ Len(memories') = Capacity
                /\ \A x \in Range(memories') :
                       Count(memories', x) <= Count(aged, x)
                /\ \A x \in Range(aged) :
                       Count(aged, x) > Count(memories', x) =>
                           \A y \in Range(memories') :
                               x.resonance <= y.resonance
      ]_vars

\* Capacity + 1 fresh entries, the first inserted of resonance 0.9 and all
\* others of resonance 0.1: the 0.9 entry is still there after the store.
C2_Witness ==
    /\ last.op = "store" /\ memEnabled
    /\ last.dropped = 1
    /\ last.input[3] = 1
    /\ memories[1].resonance = 9
    /\ \A i \in DOMAIN memories :
           /\ Age(memories[i]) = 0
           /\ i > 1 => memories[i].resonance = 1

\* C3.  retrieve selects the entry of the highest relevance, the earliest
\* one among equals, and returns it, formatted, exactly when that relevance
\* is above 0.6; otherwise, and for an empty or disabled store, it returns
\* the empty result.
C3_RetrieveSelectsTop ==
    [][ last'.op = "retrieve" =>
          LET best == { i \in DOMAIN memories :
                          /\ \A j \in DOMAIN memories : Score(j) <= Score(i)
                          /\ \A j \in DOMAIN memories :
                                 j < i => Score(j) < Score(i) }
          IN  IF /\ memEnabled
                 /\ \E i \in best : Score(i) > RelevanceThreshold
              THEN /\ last'.selected \in best
                   /\ last'.result = Format(memories[last'.selected])
              ELSE /\ last'.selected = 0
                   /\ last'.result = <<>>
      ]_vars

\* retrieve returned the first of two entries that tied for the highest
\* relevance (the first one's access had not been counted yet).
C3_Witness ==
    /\ last.op = "retrieve"
    /\ last.selected = 1
    /\ Len(memories) = 2
    /\ last.result = Format(memories[1])
    /\ Relevance(last.input[1], last.input[2],
                 [memories[1] EXCEPT !.access_count = @ - 1], now)
           = Relevance(last.input[1], last.input[2], memories[2], now)

\* C4.  Frame of retrieve: a retrieve that returns a memory adds 1 to the
\* selected entry's access count and refreshes its last access time, and
\* changes nothing else in the list; a retrieve that returns empty changes
\* neither the list nor the document.  store and the clock change no access
\* count: every entry after a store is the new entry or an entry that was
\* there before, unchanged.
C4_RetrieveFrame ==
    [][ /\ (last'.op = "retrieve" /\ last'.selected > 0) =>
              /\ Len(memories') = Len(memories)
              /\ \A i \in DOMAIN memories :
                     memories'[i] =
                         IF i = last'.selected
                         THEN [memories[i] EXCEPT
                                  !.access_count = @ + 1,
                                  !.last_accessed = now]
                         ELSE memories[i]
        /\ (last'.op = "retrieve" /\ last'.selected = 0) =>
              /\ memories' = memories
              /\ doc' = doc
        /\ (last'.op = "store" /\ memEnabled) =>
              \A x \in Range(memories') :
                  x \in Range(memories) \cup {StoredEntry}
        /\ last'.op = "tick" => memories' = memories
      ]_vars

\* A successful retrieve, some days after the store, from a list of two.
C4_Witness ==
    /\ last.op = "retrieve"
    /\ last.selected > 0
    /\ Len(memories) = 2
    /\ memories[last.selected].access_count = 1
    /\ memories[last.selected].last_accessed > memories[last.selected].timestamp

\* C5 as claimed.  Retrieval monotonicity: a retrieve whose query equals the
\* content of an entry within the retention window and whose context equals
\* the entry's context returns that entry whenever no other entry has a
\* strictly higher relevance.  (Stated for a query of at least one word; a
\* query without words has semantic relevance 0 against every content.)
C5_AsClaimed ==
    [][ (last'.op = "retrieve" /\ memEnabled) =>
          \A i \in DOMAIN memories :
              ( /\ memories[i].semantic_content = last'.input[1]
                /\ Tokens(last'.input[1]) # {}
                /\ memories[i].context = last'.input[2]
                /\ Age(memories[i]) <= RetentionPeriod
                /\ \A j \in DOMAIN memories : Score(j) <= Score(i) )
              => last'.result = Format(memories[i])
      ]_vars

\* C5, amended.  The same, for a query of at least one word and a context
\* whose context relevance against the entry's context is 1 (they share a
\* numeric feature and agree on every shared one), when no other entry has a
\* strictly higher relevance and no earlier entry has an equal one: the
\* entry's relevance is then at least 0.7, for every age in the window and
\* every resonance.
C5_RetrievalMonotonicity ==
    [][ (last'.op = "retrieve" /\ memEnabled) =>
          \A i \in DOMAIN memories :
              ( /\ memories[i].semantic_content = last'.input[1]
                /\ Tokens(last'.input[1]) # {}
                /\ ContextRelevance(last'.input[2], memories[i].context) = 60
                /\ Age(memories[i]) <= RetentionPeriod
                /\ \A j \in DOMAIN memories : Score(j) <= Score(i)
                /\ \A j \in DOMAIN memories : j < i => Score(j) < Score(i) )
              => /\ last'.selected = i
                 /\ last'.result = Format(memories[i])
                 /\ Score(i) >= 420
      ]_vars

\* An entry of low resonance, near the end of the retention window, found
\* by its own content and context.
C5_Witness ==
    /\ last.op = "retrieve" /\ memEnabled
    /\ last.selected > 0
    /\ LET m == memories[last.selected]
       IN  /\ m.semantic_content = last.input[1]
           /\ m.context = last.input[2]
           /\ ContextRelevance(last.input[2], m.context) = 60
           /\ Age(m) >= 27 /\ Age(m) <= RetentionPeriod
           /\ m.resonance <= HighResonance

\* C6 as claimed.  Loading never fails: whatever the document holds, the
\* construction of the store completes, and a document that is absent, not
\* parsable or holds a record without a required key gives an empty store.
C6_AsClaimed ==
    last.op = "restart" =>
        /\ proc = "up"
        /\ ( \/ doc.kind # "list"
             \/ \E i \in DOMAIN doc.records :
                    doc.records[i].missing \cap RequiredKeys # {} )
           => memories = <<>>

\* ------------------------------------------------ Energy Governor claims
\* The sleep threshold in force: the configured one of the legacy class,
\* the current profile's of the enhanced class.
ThresholdInForce(e) ==
    IF e.class = "legacy" THEN SleepThreshold
    ELSE ProfileSleepThreshold(e.current_profile)

\* C7 as claimed.  Energy ratio smoothing: one track_energy_use on an
\* enabled governor with ratio r0 sets the ratio to 0.7 * r0 + 0.3 * j, with
\* j = truth_value * delta / energy_used (1 when energy_used is 0), adds
\* energy_used to the total and returns the new ratio in its metrics.  For
\* the class without a delta, delta is its context factor.
C7_AsClaimed ==
    [][ (glast'.op = "track" /\ energy.enabled) =>
          LET truth_value == glast'.input[1]
              energy_used == glast'.result.energy_used
              delta == IF energy.class = "enhanced"
                       THEN energy'.energy_justice_delta ELSE ContextFactor
              j == IF energy_used = Zero THEN One
                   ELSE RDiv(RMul(truth_value, delta), energy_used)
          IN  /\ energy'.energy_justice_ratio =
                     RAdd(RMul(<<7, 10>>, energy.energy_justice_ratio),
                          RMul(<<3, 10>>, j))
              /\ energy'.total_energy_used =
                     RAdd(energy.total_energy_used, energy_used)
              /\ glast'.result.energy_justice_ratio =
                     energy'.energy_justice_ratio
      ]_vars

\* C8.  should_shutdown() is true exactly when the ratio is below 0.2, for
\* both classes, whatever the profile, the sleeping flag and the time.
C8_ShutdownIffBelowCritical ==
    glast.op = "should_shutdown" =>
        (glast.result <=> RLess(energy.energy_justice_ratio, <<1, 5>>))

\* should_shutdown() answered true on the enhanced governor, whose ratio
\* five calls of track_energy_use had brought below 0.2.
C8_Witness ==
    /\ glast.op = "should_shutdown"
    /\ glast.result
    /\ energy.class = "enhanced"
    /\ RLess(Zero, energy.energy_justice_ratio)

\* C9 as claimed.  should_sleep() is true exactly when the ratio is below
\* the sleep threshold in force, at every call.
C9_AsClaimed ==
    [][ glast'.op = "should_sleep" =>
          (glast'.result <=> RLess(energy.energy_justice_ratio,
                                   ThresholdInForce(energy)))
      ]_vars

\* ------------------------------------------------------- pipeline claims
\* C10 as claimed.  The sleep/wake step: a request that the gate lets pass,
\* made when shutdown is not warranted and should_sleep() holds, is answered
\* and leaves the governor awake if its resonance is above the wake
\* threshold; otherwise it ends in RefusedSleep and should_sleep() holds on.
C10_AsClaimed ==
    [][ ( /\ plast'.op = "process"
          /\ ~RLess(ExitThreshold,
                    ExitReadiness(frontend.resilience_enabled,
                                  plast'.input.text, NoContext))
          /\ energy.enabled
          /\ ~ShouldShutdown(energy)
          /\ ShouldSleep(energy, Time)[1] )
        => IF Analyze(plast'.input).resonance_value > WakeThreshold
           THEN /\ plast'.outcome = "Answered"
                /\ ~energy'.is_sleeping
           ELSE /\ plast'.outcome = "RefusedSleep"
                /\ ShouldSleep(energy', Time)[1]
      ]_vars

\* The five terminal states of a request.
TerminalStates ==
    {"Answered", "RefusedEthics", "RefusedShutdown", "RefusedSleep",
     "RefusedLowResonance"}

\* C11 as claimed.  Every request to POST /process or to the command line's
\* process_input ends in one of the five terminal states, never in an error,
\* whatever the state of the governor and of the Memory Store.
C11_AsClaimed ==
    [][ plast'.op = "process" => plast'.outcome \in TerminalStates ]_vars

Refusals == TerminalStates \ {"Answered"}

\* C12 as claimed.  A request that ends in a refusal calls neither store nor
\* track_energy_use and leaves the memories, the total energy, the ratio and
\* the energy log as they were; store and track_energy_use are called only
\* by a request that ends in Answered, and such a request calls
\* track_energy_use exactly once.
C12_AsClaimed ==
    [][ plast'.op = "process" =>
          /\ plast'.outcome \in Refusals =>
                 /\ memories' = memories
                 /\ energy'.total_energy_used = energy.total_energy_used
                 /\ energy'.energy_justice_ratio = energy.energy_justice_ratio
                 /\ energy'.energy_log = energy.energy_log
          /\ plast'.outcome # "Answered" =>
                 /\ Count(plast'.calls, "store") = 0
                 /\ Count(plast'.calls, "track_energy_use") = 0
          /\ plast'.outcome = "Answered" =>
                 Count(plast'.calls, "track_energy_use") = 1
      ]_vars

\* memories m2 are memories m1 with, at most, the access statistics of one
\* entry changed.
SameButAccess(m1, m2) ==
    /\ Len(m2) = Len(m1)
    /\ \A i \in DOMAIN m1 :
           [m2[i] EXCEPT !.access_count = 0, !.last_accessed = 0] =
           [m1[i] EXCEPT !.access_count = 0, !.last_accessed = 0]
    /\ Cardinality({ i \in DOMAIN m1 : m2[i] # m1[i] }) <= 1

\* C13.  A request that ends in Answered calls store exactly when its truth
\* value is above 0.75, and then once; the entry stored has the request's
\* text, its intent analysis as context, the truth value as resonance and no
\* access yet, and it is among the memories unless the capacity cap has
\* dropped it in favour of entries at least as resonant.  A request with a
\* truth value of at most 0.75 changes nothing but the access statistics of
\* the retrieved entry.
C13_StoreIffAboveThreshold ==
    [][ (plast'.op = "process" /\ plast'.outcome = "Answered") =>
          LET q == plast'.input
              above == 4 * q.truth > 3 * 10
              entry == NewEntry(q.text, q.signal, now, q.truth)
          IN  /\ Count(plast'.calls, "store") = IF above THEN 1 ELSE 0
              /\ (above /\ memEnabled) =>
                     \/ entry \in Range(memories')
                     \/ /\ Len(memories') = Capacity
                        /\ \A i \in DOMAIN memories' :
                               memories'[i].resonance >= q.truth
              /\ (~above \/ ~memEnabled) => SameButAccess(memories, memories')
      ]_vars

\* An answered request stored its entry beside an older one, and another
\* was answered without a store.
C13_Witness ==
    /\ plast.op = "process"
    /\ plast.outcome = "Answered"
    /\ Count(plast.calls, "store") = 1
    /\ memEnabled
    /\ Len(memories) = 2
    /\ \E i \in DOMAIN memories :
           /\ memories[i].semantic_content = plast.input.text
           /\ memories[i].resonance = plast.input.truth
           /\ memories[i].timestamp = now
           /\ memories[i].access_count = 0

\* C14 as claimed.  The gate comes first: a request whose exit readiness is
\* above 0.7 ends in RefusedEthics with no other module called; any other
\* request is not refused by the gate and goes on to the later checks.
C14_AsClaimed ==
    [][ plast'.op = "process" =>
          LET readiness == ExitReadiness(frontend.resilience_enabled,
                                         plast'.input.text, NoContext)
          IN  /\ plast'.calls[1] = "exit_readiness"
              /\ IF RLess(<<7, 10>>, readiness)
                 THEN /\ plast'.outcome = "RefusedEthics"
                      /\ Len(plast'.calls) = 1
                 ELSE /\ plast'.outcome # "RefusedEthics"
                      /\ Len(plast'.calls) > 1
      ]_vars

\* ----------------------------------------------------------- gate claims
\* max(0, 1 - x / threshold), as the claim writes the two context signals.
SignalBelow(x, threshold) ==
    LET q == RDiv(x, threshold)
    IN  RMax(Zero, <<q[2] - q[1], q[2]>>)

\* C15.  exit_readiness of an enabled gate is the greatest of: 0.7 if the
\* text matches a problematic pattern; max(0, 1 - resonance_value / 0.3) if
\* the context has a resonance value; max(0, 1 - mean alignment / 0.4) if
\* the context has ethical-alignment values; and 0.  It lies in [0, 1], and
\* without context it is 0.7 for a matching text and 0 for any other.
C15_ExitReadinessIsMaxOfSignals ==
    (plast.op = "exit_readiness" /\ frontend.resilience_enabled) =>
        LET text == plast.input.text
            context == plast.input.context
            readiness == plast.outcome
            values == { context.ethical_alignment[d] :
                            d \in { k \in Dimensions :
                                      context.ethical_alignment[k] # Absent } }
            a == IF ContainsProblematicPatterns(text) THEN <<7, 10>> ELSE Zero
            b == IF context.resonance_value # Absent
                 THEN SignalBelow(<<context.resonance_value, 10>>, <<3, 10>>)
                 ELSE Zero
            mean == LET ks == { k \in Dimensions :
                                  context.ethical_alignment[k] # Absent }
                    IN  <<SumValues(ks, context.ethical_alignment),
                          10 * Cardinality(ks)>>
            c == IF context.has_alignment /\ values # {}
                 THEN SignalBelow(mean, <<2, 5>>)
                 ELSE Zero
        IN  /\ \A s \in {a, b, c} : ~RLess(readiness, s)
            /\ \E s \in {a, b, c} :
                   ~RLess(s, readiness) /\ ~RLess(readiness, s)
            /\ ~RLess(readiness, Zero)
            /\ ~RLess(One, readiness)
            /\ context = NoContext =>
                   readiness = IF ContainsProblematicPatterns(text)
                               THEN <<7, 10>> ELSE Zero

\* The gate answered from a context signal that outweighs the pattern's.
C15_Witness ==
    /\ plast.op = "exit_readiness"
    /\ frontend.resilience_enabled
    /\ ContainsProblematicPatterns(plast.input.text)
    /\ plast.input.context.resonance_value = 1
    /\ plast.input.context.has_alignment
    /\ plast.outcome = <<3, 4>>

\* ---------------------------------------------- Energy Governor claims, 2
\* C16.  Mutation paths of the energy state: only track_energy_use changes
\* the ratio and the total energy, the total never decreases, and the
\* sleeping flag changes only in should_sleep, wake and should_shutdown.
C16_MutationPaths ==
    [][ /\ glast'.op # "track" =>
               /\ energy'.energy_justice_ratio = energy.energy_justice_ratio
               /\ energy'.total_energy_used = energy.total_energy_used
        /\ ~RLess(energy'.total_energy_used, energy.total_energy_used)
        /\ glast'.op \notin {"should_sleep", "wake", "should_shutdown"} =>
               energy'.is_sleeping = energy.is_sleeping
      ]_vars

\* track_energy_use was called on a governor that should_sleep() had put to
\* sleep; its total energy has grown and it sleeps on.
C16_Witness ==
    /\ glast.op = "track"
    /\ energy.is_sleeping
    /\ RLess(Zero, energy.total_energy_used)
    /\ RLess(energy.energy_justice_ratio, One)

\* C19 as claimed.  get_energy_report() and get_energy_status() change no
\* field of the governor.
C19_AsClaimed ==
    [][ glast'.op \in {"get_energy_report", "get_energy_status"} =>
            energy' = energy
      ]_vars

\* C17 as claimed, at the governor's decision points.  When should_sleep()
\* refuses (answers true), asking again with the ratio, the profile and the
\* sleeping flag as that call left them refuses again, however much later
\* the question is asked; likewise for should_shutdown().
C17_AsClaimed ==
    [][ /\ (glast'.op = "should_sleep" /\ glast'.result = TRUE) =>
               \A s \in {0} \cup TickSecs : ShouldSleep(energy', Time + s)[1]
        /\ (glast'.op = "should_shutdown" /\ glast'.result = TRUE) =>
               ShouldShutdown(energy')
      ]_vars

\* C20 as claimed.  Damping: one track_energy_use on a governor whose ratio
\* is not below the sleep threshold in force leaves the ratio at 0.2 or
\* above, so that should_shutdown() stays false.
C20_AsClaimed ==
    [][ ( /\ glast'.op = "track"
          /\ ~RLess(energy.energy_justice_ratio, ThresholdInForce(energy)) )
        => /\ ~RLess(energy'.energy_justice_ratio, <<1, 5>>)
           /\ ~ShouldShutdown(energy')
      ]_vars

C21_AsClaimed ==
    [][ ( /\ plast'.op = "process"
          /\ plast'.outcome \notin {"RefusedEthics", "RefusedShutdown"} )
        => Count(plast'.calls, "analyze") = 1
      ]_vars

\* ---------------------------------------------- Energy Governor claims, 3
\* C22.  The energy log of the governor that keeps one is a ring of the
\* last LogCapacity calls: a track_energy_use on the enabled governor adds
\* the call's record at the end, with the ratio the call has just set, and
\* drops the oldest record once the log is full, keeping the others in
\* order; no other call touches the log.  So after n calls it holds the
\* records of the last min(n, LogCapacity) calls.
C22_LogIsBoundedRing ==
    [][ energy.class = "enhanced" =>
          IF glast'.op = "track" /\ energy.enabled
          THEN LET old == energy.energy_log
                   new == energy'.energy_log
                   n == Len(new)
               IN  /\ n = IF Len(old) < LogCapacity
                          THEN Len(old) + 1 ELSE LogCapacity
                   /\ new[n].truth_value = glast'.input[1]
                   /\ new[n].processing_time = glast'.input[2]
                   /\ new[n].energy_justice_ratio =
                          energy'.energy_justice_ratio
                   /\ \A k \in 1..(n - 1) : new[k] = old[Len(old) - n + 1 + k]
          ELSE energy'.energy_log = energy.energy_log
      ]_vars

\* The log is full and an older call has left it: the total energy is that
\* of more calls than the log holds.
C22_Witness ==
    /\ energy.class = "enhanced"
    /\ Len(energy.energy_log) = LogCapacity
    /\ glast.op = "track"
    /\ energy.energy_log[LogCapacity].energy_justice_ratio =
           energy.energy_justice_ratio
    /\ RLess(RAdd(energy.energy_log[1].energy_used,
                  energy.energy_log[LogCapacity].energy_used),
             energy.total_energy_used)

\* C23.  Justice delta caching: the delta lies in [1, 10]; it changes only
\* in a call made DeltaUpdateInterval seconds or more after the last
\* recomputation, and a track_energy_use made earlier computes with the
\* delta as cached, whatever the machine's reading has become.
C23_DeltaCached ==
    [][ LET delta == energy.energy_justice_delta
            recomputed ==
                \/ energy'.energy_justice_delta # delta
                \/ energy'.last_delta_update # energy.last_delta_update
            elapsed == Time - energy.last_delta_update
        IN  /\ ~RLess(delta, One) /\ ~RLess(<<10, 1>>, delta)
            /\ ~RLess(energy'.energy_justice_delta, One)
            /\ ~RLess(<<10, 1>>, energy'.energy_justice_delta)
            /\ recomputed => elapsed >= DeltaUpdateInterval
            /\ ( /\ glast'.op = "track" /\ energy.class = "enhanced"
                 /\ energy.enabled /\ elapsed < DeltaUpdateInterval )
               => /\ glast'.result.delta = delta
                  /\ energy'.energy_log[Len(energy'.energy_log)].delta = delta
      ]_vars

\* A track_energy_use made 61 seconds after a recomputation used the cached
\* delta although the machine's reading would by then give another.
C23_Witness ==
    /\ glast.op = "track"
    /\ energy.class = "enhanced"
    /\ energy.enabled
    /\ energy.last_delta_update = 300
    /\ Time = 361
    /\ glast.result.delta = energy.energy_justice_delta
    /\ glast.result.delta # FreshDelta(energy.on_battery, glast.input[3])

\* The profile rule of the claim, with the load thresholds of
\* adaptive_energy_enhanced.py 98-116.
C24_Rule(on_battery, cpu, mem) ==
    IF on_battery
    THEN IF cpu > 70 \/ mem > 80 THEN "eco" ELSE "balanced"
    ELSE IF cpu < 30 /\ mem < 50 THEN "performance"
         ELSE IF cpu > 80 \/ mem > 90 THEN "eco"
         ELSE "balanced"

\* C24 as claimed.  select_energy_profile() yields eco, balanced or
\* performance as a function of the power source and the CPU and memory load
\* alone: eco on battery under high load, balanced on battery otherwise,
\* performance on mains under low load, eco on mains under very high load,
\* balanced in every remaining case, whatever the previous profile and the
\* ratio.  The power source is the one the governor goes by: the reading's on
\* the legacy class, the on_battery field after the call on the enhanced one.
C24_AsClaimed ==
    [][ glast'.op = "select_energy_profile" =>
            LET r == glast'.input[1]
                on_battery == IF energy.class = "legacy"
                              THEN IsOnBattery(r) ELSE energy'.on_battery
            IN  /\ glast'.result = C24_Rule(on_battery, r.cpu, r.mem)
                /\ energy'.current_profile = glast'.result
      ]_vars

\* The entries of seq at the positions in S, in the order of seq.
SubSeqAt(seq, S) ==
    LET F[i \in 0..Len(seq)] ==
            IF i = 0 THEN <<>>
            ELSE IF i \in S THEN Append(F[i - 1], seq[i]) ELSE F[i - 1]
    IN  F[Len(seq)]

Expired(memory) ==
    Age(memory) >= RetentionPeriod /\ memory.resonance <= HighResonance

\* The relevance of entry i without its temporal term, in 1/600.
ScoreWithoutAge(i) ==
      40 * SemanticRelevance(last'.input[1], memories[i].semantic_content)
    + 3 * ContextRelevance(last'.input[2], memories[i].context)
    + 6 * memories[i].resonance
    + Min(120, 12 * memories[i].access_count)

\* C29 as claimed.  The entry retrieve returns has an age within the
\* retention window or a resonance above 0.8.
C29_AsClaimed ==
    [][ (last'.op = "retrieve" /\ last'.selected > 0) =>
            LET m == memories[last'.selected]
            IN  Age(m) <= RetentionPeriod \/ m.resonance > HighResonance
      ]_vars

\* C29, amended.  retrieve applies no age rule.  An entry past the
\* retention window counts with a temporal factor of 0: when it is returned,
\* its other terms alone are above 0.6, and when its other terms are above
\* 0.6 and above every other entry's relevance, it is returned and its
\* access is counted.  Passage of time and retrieve remove no entry; the
\* store that follows removes the expired ones.
C29_ExpiredRetrievedUntilNextStore ==
    [][ /\ (last'.op = "retrieve" /\ memEnabled) =>
              \A i \in DOMAIN memories :
                  Expired(memories[i]) =>
                      /\ last'.selected = i =>
                             ScoreWithoutAge(i) > RelevanceThreshold
                      /\ ( /\ ScoreWithoutAge(i) > RelevanceThreshold
                           /\ \A j \in DOMAIN memories \ {i} :
                                  Score(j) < ScoreWithoutAge(i) )
                         => /\ last'.selected = i
                            /\ last'.result = Format(memories[i])
                            /\ memories'[i].access_count
                                   = memories[i].access_count + 1
        /\ last'.op \in {"retrieve", "tick"} =>
              Len(memories') = Len(memories)
        /\ (last'.op = "store" /\ memEnabled) =>
              \A i \in DOMAIN memories :
                  Expired(memories[i]) => memories[i] \notin Range(memories')
      ]_vars

\* retrieve returned, and counted the access of, an entry of low resonance
\* stored 31 days earlier.
C29_Witness ==
    /\ last.op = "retrieve" /\ memEnabled
    /\ last.selected > 0
    /\ LET m == memories[last.selected]
       IN  /\ Age(m) > RetentionPeriod
           /\ m.resonance <= HighResonance
           /\ m.access_count = 1
           /\ last.result = Format(m)

\* The document decodes, without an exception, to the list in memory.
DecodesToMemory(d, mems) == ~LoadRaises(d) /\ LoadMemories(d) = mems

C27_AsClaimed ==
    [][ /\ energy'.energy_justice_ratio # energy.energy_justice_ratio
           => plast'.outcome = "Answered"
        /\ (plast.outcome = "RefusedShutdown" /\ plast' # plast)
           => plast'.outcome \in {"RefusedShutdown", "RefusedEthics"}
      ]_vars

====
